---- MODULE Spec2Model ----
(***************************************************************************)
(* State machine of the InterviewPractice component                       *)
(* (src/components/InterviewPractice.tsx): the session lifecycle           *)
(* (startSession / stopSession / channel callbacks), the inbound message   *)
(* handler (transcript aggregation, playback scheduling, interruption)     *)
(* and the React state the component keeps.                                *)
(*                                                                         *)
(* Conventions                                                             *)
(*  - every call of startSession is an "invocation" s \in Sessions; its    *)
(*    closure variables (stream, audioCtxIn, audioCtxOut, currentOutText,  *)
(*    currentInText, sessionPromise) are the s-th components of the        *)
(*    per-invocation functions below;                                      *)
(*  - a ref holds 0 for null, else the invocation whose object it holds;   *)
(*  - useState setters queue an update; Render applies the queue in order. *)
(*    An updater function (prev => ...) reads the closure variables when   *)
(*    React invokes it: at the call (eager / synchronous flush) or at the  *)
(*    next render, which the React runtime decides;                        *)
(*  - timestamps (Date.now()) are not modelled;                            *)
(*  - variables whose comment says "observation" record what happened and  *)
(*    are never read by an action's guard or effect on program state.      *)
(***************************************************************************)
EXTENDS Integers, Sequences, FiniteSets, TLC

\* ------------------------------------------------------------ bounds
TextEvents == 3       \* inbound events explored by Spec
PlayEvents == 3       \* inbound events explored by SpecPlay
LifeSessions == 2     \* startSession invocations explored by SpecLife
MaxClock == 2         \* the output clock is advanced to at most this
RestartSessions == 3  \* startSession invocations explored by SpecRestart
ReopenEvents == 2     \* inbound events explored by SpecReopen
CaptureBlocks == 2    \* audio blocks captured in SpecCapture
CaptureFrames == 2    \* video frames captured in SpecCapture
MaxBytes == 3         \* longest byte sequence encoded in SpecCodec

Sessions == 1..RestartSessions

\* ------------------------------------------------------------ inputs
Absent == "absent"
OutFragments == {"Hello", " there"}
InFragments == {"Hi"}
Durations == {1, 2}
NoParts == "noParts"

\* LiveServerMessage, reduced to the fields onmessage reads.
\*   out, inp : serverContent.outputTranscription.text / inputTranscription.text
\*   audio    : serverContent.modelTurn, by shape: Absent (modelTurn, parts[0],
\*              inlineData or data missing), NoParts (modelTurn present, parts
\*              undefined), or "data" with the duration of the buffer that the
\*              inline data decodes to
AudioPayloads ==
    {[shape |-> Absent, dur |-> 0], [shape |-> NoParts, dur |-> 0]}
    \cup {[shape |-> "data", dur |-> d] : d \in Durations}

Messages ==
    [out : OutFragments \cup {Absent},
     inp : InFragments \cup {Absent},
     turnComplete : BOOLEAN,
     interrupted : BOOLEAN,
     audio : AudioPayloads]

\* The events each specification delivers.
TextMessages == {m \in Messages : m.audio.shape = Absent /\ ~m.interrupted}
PlayMessages == {m \in Messages : m.out = Absent /\ m.inp = Absent /\ ~m.turnComplete}
ReopenMessages == {m \in PlayMessages : m.audio.shape = "data"}
AllMessages ==
    {m \in Messages : /\ m.out \in {"Hello", Absent} /\ m.inp = Absent
                      /\ m.audio.dur # 2 /\ m.turnComplete = (m.out # Absent)}

\* The byte values the codec is run on, and the byte sequences.
ByteSamples == {0, 1, 127, 128, 255}
ByteSeqs == UNION {[1..n -> ByteSamples] : n \in 0..MaxBytes}

VARIABLES
    isActive,            \* useState, as rendered
    isConnecting,        \* useState, as rendered
    transcriptions,      \* useState, as rendered: Seq of [role, text, want]
    updates,             \* queued useState updates, not yet rendered
    sessionRef,          \* refs: 0 = null
    streamRef,
    audioContextInRef,
    audioContextOutRef,
    frameIntervalRef,
    nextStartTimeRef,    \* the playback cursor
    pc,                  \* position of each startSession invocation
    chan,                \* the channel each invocation asked ai.live.connect for
    tracks,              \* the tracks of each invocation's MediaStream
    ctxIn,               \* each invocation's input AudioContext
    ctxOut,              \* each invocation's output AudioContext
    timer,               \* each invocation's video setInterval timer
    capture,             \* onopen of the invocation ran: script processor wired
    currentOutText,      \* closure variables of each invocation
    currentInText,
    clock,               \* audioCtxOut.currentTime of each invocation
    decoding,            \* onmessage handlers suspended at await decodeAudioData
    alerts,              \* number of alert() calls
    released,            \* observation: release calls each resource received
    torn,                \* observation: stopSession ran while the invocation's
                         \*   device request ("device") or channel-open request
                         \*   ("connect") was outstanding
    recvOut,             \* observation: fragments received since turnComplete
    recvIn,
    play,                \* observation: the source.start calls made so far:
                         \*   end: the end of the last buffer scheduled (-1: none)
                         \*   expect: clock at the first arrival + durations scheduled
                         \*   intr: line 183 has run
    nEvents,             \* inbound events delivered so far
    last,                \* observation: the step just taken
    limits,              \* the bounds of the run (set by Init, never changed)
    thens,               \* reactions registered on each sessionPromise, pending
    encoding,            \* video frames whose canvas.toBlob has not called back
    reading,             \* video frames whose FileReader has not finished
    sent,                \* observation: the sendRealtimeInput calls, in order
    nBlocks,             \* audio blocks captured so far
    nFrames,             \* video frames captured so far
    codec                \* a run of encode and decode: [pc, bytes, base64, out]

reactVars == <<isActive, isConnecting, transcriptions, updates>>
refVars == <<sessionRef, streamRef, audioContextInRef, audioContextOutRef,
             frameIntervalRef>>
resVars == <<chan, tracks, ctxIn, ctxOut, timer, released, torn>>
textVars == <<currentOutText, currentInText, recvOut, recvIn>>
playVars == <<nextStartTimeRef, decoding, play>>
capVars == <<thens, encoding, reading, sent, nBlocks, nFrames>>
vars == <<isActive, isConnecting, transcriptions, updates, sessionRef, streamRef,
          audioContextInRef, audioContextOutRef, frameIntervalRef,
          nextStartTimeRef, pc, chan, tracks, ctxIn, ctxOut, timer, capture,
          currentOutText, currentInText, clock, decoding, alerts, released, torn,
          recvOut, recvIn, play, nEvents, last, limits, thens, encoding, reading,
          sent, nBlocks, nFrames, codec>>

Max(a, b) == IF a >= b THEN a ELSE b

\* ------------------------------------------------------------ React state
\* The queued updates.  Applying a queue of setIsActive / setIsConnecting calls
\* in order leaves the value of the last call, and setTranscriptions([...])
\* discards what was queued before it, so the queue is kept as: the last
\* queued value of each flag (<<>> when none) and the transcript updates
\* queued since the last replacement.
NoUpdates == [active |-> <<>>, connecting |-> <<>>, tr |-> <<>>]

SetActive(q, v) == [q EXCEPT !.active = <<v>>]
SetConnecting(q, v) == [q EXCEPT !.connecting = <<v>>]

ConnectingText == "Connecting to AI Interviewer..."
Placeholder == [role |-> "assistant", text |-> ConnectingText, want |-> ConnectingText]

\* One queued transcript update.  k = "set": line 84.  k = "append": an
\* updater of lines 164-165, whose text is the buffer of invocation s as read
\* when React invokes it (eager: at the call, text holds it; else at render);
\* want: observation, the fragments received for that speaker at the call.
TrUpd(k, role, s, eager, text, want) ==
    [k |-> k, role |-> role, s |-> s, eager |-> eager, text |-> text, want |-> want]

SetPlaceholder(q) ==
    [q EXCEPT !.tr = <<TrUpd("set", "assistant", 0, TRUE, ConnectingText, ConnectingText)>>]

\* The text an updater produces when React invokes it at render time.
UpdaterText(u) ==
    IF u.eager THEN u.text
    ELSE IF u.role = "user" THEN currentInText[u.s] ELSE currentOutText[u.s]

RECURSIVE ApplyTranscript(_, _)
ApplyTranscript(ups, tr) ==
    IF ups = <<>> THEN tr
    ELSE LET u == Head(ups) IN
         ApplyTranscript(Tail(ups),
             IF u.k = "set" THEN <<Placeholder>>
             ELSE Append(tr, [role |-> u.role, text |-> UpdaterText(u),
                              want |-> u.want]))

\* The state a render of queue q shows.
ActiveAfter(q) == IF q.active = <<>> THEN isActive ELSE q.active[1]
ConnectingAfter(q) == IF q.connecting = <<>> THEN isConnecting ELSE q.connecting[1]
TranscriptAfter(q) == ApplyTranscript(q.tr, transcriptions)

\* React renders: the queued updates are applied in order.
Flush(q) ==
    /\ isActive' = ActiveAfter(q)
    /\ isConnecting' = ConnectingAfter(q)
    /\ transcriptions' = TranscriptAfter(q)
    /\ updates' = NoUpdates

\* observation: the step just taken.
\*   op      : "stopSession" when the step called stopSession, "onmessage" when
\*             it ran (part of) the handler of an inbound event of invocation s
\*   again   : the step before a stopSession step called stopSession too
\*   turn    : lines 163-168 ran; hadIn / hadOut: the buffers lines 164 / 165
\*             tested were non-empty; before: updates queued before the step
\*   clamp, start, intr : line 173 / 178 / 183 ran
\*   startAt : the argument of source.start; arrival: the output clock when
\*             that payload's handler ran line 173; prevEnd: the end of the
\*             buffer scheduled before it (-1: none)
NoStep ==
    [op |-> "step", s |-> 0, again |-> FALSE, turn |-> FALSE, hadIn |-> FALSE,
     hadOut |-> FALSE, before |-> 0, clamp |-> FALSE, start |-> FALSE,
     intr |-> FALSE, startAt |-> 0, arrival |-> 0, prevEnd |-> -1,
     rejected |-> FALSE, threw |-> FALSE]

Mark(op) == last' = [NoStep EXCEPT !.op = op]

\* ------------------------------------------------------------ Init
Resources == {"channel", "tracks", "timer", "ctxIn", "ctxOut"}

\* The state after the component is mounted; b: the bytes the codec is run on.
InitFor(lim, b) ==
    /\ thens = [s \in Sessions |-> <<>>]
    /\ encoding = {}
    /\ reading = {}
    /\ sent = <<>>
    /\ nBlocks = 0
    /\ nFrames = 0
    /\ codec = [pc |-> "idle", bytes |-> b, base64 |-> <<>>, out |-> <<>>]
    /\ isActive = FALSE
    /\ isConnecting = FALSE
    /\ transcriptions = <<>>
    /\ updates = NoUpdates
    /\ sessionRef = 0
    /\ streamRef = 0
    /\ audioContextInRef = 0
    /\ audioContextOutRef = 0
    /\ frameIntervalRef = 0
    /\ nextStartTimeRef = 0
    /\ pc = [s \in Sessions |-> "unused"]
    /\ chan = [s \in Sessions |-> "none"]
    /\ tracks = [s \in Sessions |-> "none"]
    /\ ctxIn = [s \in Sessions |-> "none"]
    /\ ctxOut = [s \in Sessions |-> "none"]
    /\ timer = [s \in Sessions |-> "none"]
    /\ capture = [s \in Sessions |-> FALSE]
    /\ currentOutText = [s \in Sessions |-> ""]
    /\ currentInText = [s \in Sessions |-> ""]
    /\ clock = [s \in Sessions |-> 0]
    /\ decoding = <<>>
    /\ alerts = 0
    /\ released = [s \in Sessions |-> [r \in Resources |-> 0]]
    /\ torn = [s \in Sessions |-> "no"]
    /\ recvOut = [s \in Sessions |-> ""]
    /\ recvIn = [s \in Sessions |-> ""]
    /\ play = [end |-> -1, expect |-> 0, intr |-> FALSE]
    /\ nEvents = 0
    /\ last = NoStep
    /\ limits = lim

InitWith(lim) == InitFor(lim, <<>>)

Init == InitWith([sessions |-> 1, events |-> TextEvents, messages |-> TextMessages])
InitPlay == InitWith([sessions |-> 1, events |-> PlayEvents, messages |-> PlayMessages])
InitLife == InitWith([sessions |-> LifeSessions, events |-> 0, messages |-> {}])
InitRestart == InitWith([sessions |-> RestartSessions, events |-> 0, messages |-> {}])
InitReopen ==
    InitWith([sessions |-> LifeSessions, events |-> ReopenEvents, messages |-> ReopenMessages])
InitCapture == InitWith([sessions |-> 1, events |-> 0, messages |-> {}])
InitCodec ==
    \E b \in ByteSeqs : InitFor([sessions |-> 0, events |-> 0, messages |-> {}], b)
InitAll == InitWith([sessions |-> LifeSessions, events |-> 1, messages |-> AllMessages])

\* ------------------------------------------------------------ stopSession
Release(rel, ref, r) == IF ref = 0 THEN rel ELSE [rel EXCEPT ![ref][r] = @ + 1]

\* sessionRef.current.close(): the channel starts closing
CloseChannel(ch) ==
    IF sessionRef = 0 THEN ch
    ELSE [ch EXCEPT ![sessionRef] = IF @ \in {"connecting", "open"} THEN "closing" ELSE @]

StopTracks == IF streamRef = 0 THEN tracks ELSE [tracks EXCEPT ![streamRef] = "stopped"]

ClearTimer ==
    IF frameIntervalRef = 0 THEN timer ELSE [timer EXCEPT ![frameIntervalRef] = "cleared"]

CloseContext(ctx, ref) == IF ref = 0 THEN ctx ELSE [ctx EXCEPT ![ref] = "closed"]

\* close() on an AudioContext that is already closed returns a promise
\* rejected with InvalidStateError; lines 77-78 attach no handler to it.
CloseRejects(ctx, ref) == ref # 0 /\ ctx[ref] = "closed"

\* observation: a call of stopSession; again: the step before was one too;
\* rejected: a close() of lines 77-78 returned a rejected promise.
MarkStop ==
    last' = [NoStep EXCEPT !.op = "stopSession",
                           !.again = (last.op = "stopSession"),
                           !.rejected = \/ CloseRejects(ctxIn, audioContextInRef)
                                        \/ CloseRejects(ctxOut, audioContextOutRef)]

\* Line 72 alone.
StopUpdatesActiveOnly(q) == SetActive(q, FALSE)

\* Lines 72-73.
StopUpdates(q) == SetConnecting(SetActive(q, FALSE), FALSE)

ClearedSessionRef == 0

\* observation: the requests of other invocations that are outstanding when
\* stopSession runs in invocation self's callback or catch block (0: a click).
TornBy(self) ==
    [s \in Sessions |->
        IF s = self \/ torn[s] # "no" THEN torn[s]
        ELSE IF pc[s] = "awaitDevice" THEN "device"
        ELSE IF pc[s] = "awaitConnect" /\ chan[s] = "connecting" THEN "connect"
        ELSE "no"]

\* stopSession, lines 74-79; ch is the channel state it runs in (the caller,
\* a channel callback, may just have changed it), self the invocation whose
\* catch block calls it (0: a click or a channel callback).  The two setters of lines
\* 72-73 are StopUpdates, queued by the caller.
stopSession(ch, self) ==
    /\ torn' = TornBy(self)
    /\ chan' = CloseChannel(ch)
    /\ tracks' = StopTracks
    /\ timer' = ClearTimer
    /\ ctxIn' = CloseContext(ctxIn, audioContextInRef)
    /\ ctxOut' = CloseContext(ctxOut, audioContextOutRef)
    /\ released' =
         Release(Release(Release(Release(Release(released,
            sessionRef, "channel"), streamRef, "tracks"), frameIntervalRef, "timer"),
            audioContextInRef, "ctxIn"), audioContextOutRef, "ctxOut")
    /\ sessionRef' = ClearedSessionRef
    /\ UNCHANGED <<streamRef, audioContextInRef, audioContextOutRef, frameIntervalRef>>

\* ------------------------------------------------------------ sending
\* observation: stopSession has released a resource of invocation s.
TornDown(s) == \E r \in Resources : released[s][r] > 0

\* session.sendRealtimeInput({media: c}) on the channel of invocation s.
Sends(s, c) == [s |-> s, kind |-> c.kind, n |-> c.n, late |-> TornDown(s)]

\* sessionPromise.then(session => session.sendRealtimeInput({media: c})),
\* lines 130 and 147: the reaction runs at once when the promise is resolved,
\* and waits for the resolution otherwise.
Then(s, c) ==
    IF pc[s] = "resolved"
    THEN /\ sent' = Append(sent, Sends(s, c))
         /\ thens' = thens
    ELSE /\ sent' = sent
         /\ thens' = [thens EXCEPT ![s] = Append(@, c)]

\* ------------------------------------------------------------ lifecycle
NStarted == Cardinality({s \in Sessions : pc[s] # "unused"})

\* Click on "Start Live Session" (rendered only when neither flag is set):
\* startSession up to its first await, then React flushes the click's updates.
UserStart ==
    /\ ~isActive /\ ~isConnecting
    /\ NStarted < limits.sessions
    /\ pc' = [pc EXCEPT ![NStarted + 1] = "awaitDevice"]
    /\ Flush(SetPlaceholder(SetConnecting(updates, TRUE)))
    /\ Mark("step")
    /\ UNCHANGED <<refVars, resVars, textVars, playVars, capture, clock, alerts,
                   nEvents, limits,
                   capVars, codec>>

\* getUserMedia resolves: lines 89-100, up to await sessionPromise.
DeviceGrant(s) ==
    /\ pc[s] = "awaitDevice"
    /\ pc' = [pc EXCEPT ![s] = "awaitConnect"]
    /\ streamRef' = s
    /\ tracks' = [tracks EXCEPT ![s] = "live"]
    /\ ctxIn' = [ctxIn EXCEPT ![s] = "running"]
    /\ ctxOut' = [ctxOut EXCEPT ![s] = "running"]
    /\ audioContextInRef' = s
    /\ audioContextOutRef' = s
    /\ currentOutText' = [currentOutText EXCEPT ![s] = ""]
    /\ currentInText' = [currentInText EXCEPT ![s] = ""]
    /\ chan' = [chan EXCEPT ![s] = "connecting"]
    /\ Mark("step")
    /\ UNCHANGED <<reactVars, sessionRef, frameIntervalRef, timer, released, torn, recvOut,
                   recvIn, playVars, capture, clock, alerts, nEvents, limits,
                   capVars, codec>>

\* getUserMedia rejects: the catch block, lines 194-198.
DeviceDeny(s) ==
    /\ pc[s] = "awaitDevice"
    /\ pc' = [pc EXCEPT ![s] = "ended"]
    /\ updates' = StopUpdates(updates)
    /\ stopSession(chan, s)
    /\ alerts' = alerts + 1
    /\ MarkStop
    /\ UNCHANGED <<isActive, isConnecting, transcriptions, textVars, playVars,
                   capture, clock, nEvents, limits,
                   capVars, codec>>

\* callbacks.onopen, lines 114-154.
ChannelOpen(s) ==
    /\ chan[s] = "connecting"
    /\ chan' = [chan EXCEPT ![s] = "open"]
    /\ updates' = SetConnecting(SetActive(updates, TRUE), FALSE)
    /\ capture' = [capture EXCEPT ![s] = TRUE]
    /\ timer' = [timer EXCEPT ![s] = "running"]
    /\ frameIntervalRef' = s
    /\ Mark("step")
    /\ UNCHANGED <<isActive, isConnecting, transcriptions, sessionRef, streamRef,
                   audioContextInRef, audioContextOutRef, pc, tracks, ctxIn, ctxOut,
                   released, torn, textVars, playVars, clock, alerts, nEvents, limits,
                   capVars, codec>>

\* sessionPromise resolves (the channel has opened): its pending reactions
\* run in the order they were registered, then line 193.
ConnectResolve(s) ==
    /\ pc[s] = "awaitConnect"
    /\ capture[s]
    /\ pc' = [pc EXCEPT ![s] = "resolved"]
    /\ sessionRef' = s
    /\ sent' = sent \o [i \in 1..Len(thens[s]) |-> Sends(s, thens[s][i])]
    /\ thens' = [thens EXCEPT ![s] = <<>>]
    /\ Mark("step")
    /\ UNCHANGED <<reactVars, streamRef, audioContextInRef, audioContextOutRef,
                   frameIntervalRef, resVars, textVars, playVars, capture, clock,
                   alerts, nEvents, limits, encoding, reading, nBlocks, nFrames,
                   codec>>

\* sessionPromise rejects (the channel never opened): the catch block.
ConnectReject(s) ==
    /\ pc[s] = "awaitConnect"
    /\ ~capture[s]
    /\ pc' = [pc EXCEPT ![s] = "ended"]
    /\ updates' = StopUpdates(updates)
    /\ stopSession([chan EXCEPT ![s] = IF @ = "connecting" THEN "closed" ELSE @], s)
    /\ alerts' = alerts + 1
    /\ MarkStop
    /\ UNCHANGED <<isActive, isConnecting, transcriptions, textVars, playVars,
                   capture, clock, nEvents, limits,
                   capVars, codec>>

\* callbacks.onerror, lines 187-190; the failed channel then closes.
ChannelError(s) ==
    /\ chan[s] \in {"connecting", "open"}
    /\ updates' = StopUpdates(updates)
    /\ stopSession([chan EXCEPT ![s] = "closing"], 0)
    /\ MarkStop
    /\ UNCHANGED <<isActive, isConnecting, transcriptions, pc, textVars, playVars,
                   capture, clock, alerts, nEvents, limits,
                   capVars, codec>>

\* callbacks.onclose, line 186: the channel has closed (remotely, after an
\* error, or after close()).
ChannelClose(s) ==
    /\ chan[s] \in {"connecting", "open", "closing"}
    /\ updates' = StopUpdates(updates)
    /\ stopSession([chan EXCEPT ![s] = "closed"], 0)
    /\ MarkStop
    /\ UNCHANGED <<isActive, isConnecting, transcriptions, pc, textVars, playVars,
                   capture, clock, alerts, nEvents, limits,
                   capVars, codec>>

\* Click on "End Session" (rendered only when isActive), then React flushes.
UserStop ==
    /\ isActive
    /\ stopSession(chan, 0)
    /\ Flush(StopUpdates(updates))
    /\ MarkStop
    /\ UNCHANGED <<pc, textVars, playVars, capture, clock, alerts, nEvents, limits,
                   capVars, codec>>

\* React renders the queued updates.
Render ==
    /\ updates # NoUpdates
    /\ Flush(updates)
    /\ Mark("step")
    /\ UNCHANGED <<refVars, resVars, textVars, playVars, pc, capture, clock, alerts,
                   nEvents, limits,
                   capVars, codec>>

\* ------------------------------------------------------------ onmessage
\* Lines 157-161: the pending buffers after the transcription fields of m.
OutTextAfter(s, m) ==
    IF m.out # Absent THEN currentOutText[s] \o m.out ELSE currentOutText[s]

InTextAfter(s, m) ==
    IF m.out # Absent THEN currentInText[s]
    ELSE IF m.inp # Absent THEN currentInText[s] \o m.inp ELSE currentInText[s]

\* observation: every fragment the event carries, per speaker
RecvOutAfter(s, m) == IF m.out # Absent THEN recvOut[s] \o m.out ELSE recvOut[s]
RecvInAfter(s, m) == IF m.inp # Absent THEN recvIn[s] \o m.inp ELSE recvIn[s]

\* One setTranscriptions(prev => [...prev, {role, text: buffer}]) call: the
\* entry's text is the buffer when React invokes the updater.
AppendEntry(role, s, eager, buffer, want) ==
    TrUpd("append", role, s, eager, IF eager THEN buffer ELSE "", want)

\* Lines 164-165 with the two calls exchanged.
TurnUpdatesOutFirst(s, m, eagerIn, eagerOut) ==
    (IF OutTextAfter(s, m) # ""
     THEN <<AppendEntry("assistant", s, eagerOut, OutTextAfter(s, m),
                        RecvOutAfter(s, m))>>
     ELSE <<>>)
    \o (IF InTextAfter(s, m) # ""
        THEN <<AppendEntry("user", s, eagerIn, InTextAfter(s, m), RecvInAfter(s, m))>>
        ELSE <<>>)

\* Lines 164-165: the updates a turnComplete queues.
TurnUpdates(s, m, eagerIn, eagerOut) ==
    (IF InTextAfter(s, m) # ""
     THEN <<AppendEntry("user", s, eagerIn, InTextAfter(s, m), RecvInAfter(s, m))>>
     ELSE <<>>)
    \o (IF OutTextAfter(s, m) # ""
        THEN <<AppendEntry("assistant", s, eagerOut, OutTextAfter(s, m),
                           RecvOutAfter(s, m))>>
        ELSE <<>>)

\* Line 173 left out.
ClampCursorNone(now) == nextStartTimeRef

\* Line 173: the cursor is clamped to the output clock, which reads now.
ClampCursor(now) == Max(nextStartTimeRef, now)

\* Lines 182-184 assigning the clock's reading.
InterruptedCursorNow(now) == now

\* Lines 182-184: the cursor after an interruption signal handled when the
\* output clock reads now.
InterruptedCursor(now) == 0

\* Line 179 assigning the duration instead of adding it.
AdvanceCursorAssign(dur) == dur

\* Line 179: the cursor after a buffer of duration dur was scheduled.
AdvanceCursor(dur) == nextStartTimeRef + dur

\* observation: the source.start call of line 178 for handler h.
Started(h) ==
    [end |-> nextStartTimeRef + h.dur,
     expect |-> (IF play.end = -1 THEN h.arrival ELSE play.expect) + h.dur,
     intr |-> play.intr \/ h.intr]

\* observation: the transcription part of the handler of m.
TextStep(s, m) ==
    [NoStep EXCEPT !.op = "onmessage", !.s = s, !.turn = m.turnComplete,
                   !.hadIn = (InTextAfter(s, m) # ""),
                   !.hadOut = (OutTextAfter(s, m) # ""),
                   !.before = Len(updates.tr)]

\* callbacks.onmessage, lines 155-185: up to await decodeAudioData, or to its
\* end when the event carries no audio, or to the TypeError of parts[0] when
\* modelTurn has no parts.
OnMessage(s, m, eagerIn, eagerOut) ==
    /\ chan[s] = "open"
    /\ nEvents < limits.events
    /\ eagerIn => (m.turnComplete /\ InTextAfter(s, m) # "")
    /\ eagerOut => (m.turnComplete /\ OutTextAfter(s, m) # "")
    /\ nEvents' = nEvents + 1
    /\ IF m.turnComplete
       THEN /\ updates' = [updates EXCEPT !.tr = @ \o TurnUpdates(s, m, eagerIn, eagerOut)]
            /\ currentInText' = [currentInText EXCEPT ![s] = ""]
            /\ currentOutText' = [currentOutText EXCEPT ![s] = ""]
            /\ recvIn' = [recvIn EXCEPT ![s] = ""]
            /\ recvOut' = [recvOut EXCEPT ![s] = ""]
       ELSE /\ updates' = updates
            /\ currentInText' = [currentInText EXCEPT ![s] = InTextAfter(s, m)]
            /\ currentOutText' = [currentOutText EXCEPT ![s] = OutTextAfter(s, m)]
            /\ recvIn' = [recvIn EXCEPT ![s] = RecvInAfter(s, m)]
            /\ recvOut' = [recvOut EXCEPT ![s] = RecvOutAfter(s, m)]
    /\ CASE m.audio.shape = "data" ->
              /\ nextStartTimeRef' = ClampCursor(clock[s])
              /\ decoding' = Append(decoding,
                     [s |-> s, dur |-> m.audio.dur, intr |-> m.interrupted,
                      arrival |-> clock[s]])
              /\ play' = play
              /\ last' = [TextStep(s, m) EXCEPT !.clamp = TRUE]
         [] m.audio.shape = NoParts ->
              /\ UNCHANGED <<nextStartTimeRef, decoding, play>>
              /\ last' = [TextStep(s, m) EXCEPT !.threw = TRUE]
         [] OTHER ->
              /\ nextStartTimeRef' =
                    IF m.interrupted THEN InterruptedCursor(clock[s]) ELSE nextStartTimeRef
              /\ decoding' = decoding
              /\ play' = [play EXCEPT !.intr = @ \/ m.interrupted]
              /\ last' = [TextStep(s, m) EXCEPT !.intr = m.interrupted]
    /\ UNCHANGED <<isActive, isConnecting, transcriptions, refVars, resVars, pc,
                   capture, clock, alerts, limits,
                   capVars, codec>>

\* The oldest suspended handler resumes: lines 175-184.
ResumeDecode ==
    /\ decoding # <<>>
    /\ LET h == Head(decoding) IN
         /\ play' = Started(h)
         /\ nextStartTimeRef' =
               IF h.intr THEN InterruptedCursor(clock[h.s]) ELSE AdvanceCursor(h.dur)
         /\ last' = [NoStep EXCEPT !.op = "onmessage", !.s = h.s, !.start = TRUE,
                                   !.intr = h.intr, !.startAt = nextStartTimeRef,
                                   !.arrival = h.arrival, !.prevEnd = play.end]
    /\ decoding' = Tail(decoding)
    /\ UNCHANGED <<reactVars, refVars, resVars, textVars, pc, capture, clock,
                   alerts, nEvents, limits,
                   capVars, codec>>

\* Time passes: the clock of every running output context advances.
Tick ==
    /\ \E s \in Sessions : ctxOut[s] = "running"
    /\ \A s \in Sessions : ctxOut[s] = "running" => clock[s] < MaxClock
    /\ clock' = [s \in Sessions |->
                   IF ctxOut[s] = "running" THEN clock[s] + 1 ELSE clock[s]]
    /\ Mark("step")
    /\ UNCHANGED <<reactVars, refVars, resVars, textVars, playVars, pc, capture,
                   alerts, nEvents, limits,
                   capVars, codec>>

\* ------------------------------------------------------------ capture
\* scriptProcessor.onaudioprocess, lines 121-131: one block of microphone
\* samples; the node runs while the input context does.
AudioBlock(s) ==
    /\ capture[s]
    /\ ctxIn[s] = "running"
    /\ nBlocks < CaptureBlocks
    /\ nBlocks' = nBlocks + 1
    /\ Then(s, [kind |-> "audio", n |-> nBlocks + 1])
    /\ Mark("step")
    /\ UNCHANGED <<reactVars, refVars, resVars, textVars, playVars, pc, capture,
                   clock, alerts, nEvents, limits, encoding, reading, nFrames, codec>>

\* The setInterval callback, lines 136-142: a frame is drawn and toBlob asked
\* to encode it.
VideoTick(s) ==
    /\ timer[s] = "running"
    /\ nFrames < CaptureFrames
    /\ nFrames' = nFrames + 1
    /\ encoding' = encoding \cup {[s |-> s, n |-> nFrames + 1]}
    /\ Mark("step")
    /\ UNCHANGED <<reactVars, refVars, resVars, textVars, playVars, pc, capture,
                   clock, alerts, nEvents, limits, thens, reading, sent, nBlocks,
                   codec>>

\* The toBlob callback, lines 142-151, for frame f; blob: it is not null.
BlobReady(f, blob) ==
    /\ f \in encoding
    /\ encoding' = encoding \ {f}
    /\ reading' = IF blob THEN reading \cup {f} ELSE reading
    /\ Mark("step")
    /\ UNCHANGED <<reactVars, refVars, resVars, textVars, playVars, pc, capture,
                   clock, alerts, nEvents, limits, thens, sent, nBlocks, nFrames,
                   codec>>

\* reader.onloadend, lines 145-148, for frame f.
LoadEnd(f) ==
    /\ f \in reading
    /\ reading' = reading \ {f}
    /\ Then(f.s, [kind |-> "video", n |-> f.n])
    /\ Mark("step")
    /\ UNCHANGED <<reactVars, refVars, resVars, textVars, playVars, pc, capture,
                   clock, alerts, nEvents, limits, encoding, nBlocks, nFrames,
                   codec>>

\* ------------------------------------------------------------ codec
\* The base64 alphabet of btoa / atob; "=" pads.
Alphabet ==
    <<"A", "B", "C", "D", "E", "F", "G", "H", "I", "J", "K", "L", "M", "N", "O", "P",
      "Q", "R", "S", "T", "U", "V", "W", "X", "Y", "Z", "a", "b", "c", "d", "e", "f",
      "g", "h", "i", "j", "k", "l", "m", "n", "o", "p", "q", "r", "s", "t", "u", "v",
      "w", "x", "y", "z", "0", "1", "2", "3", "4", "5", "6", "7", "8", "9", "+", "/">>

Char(v) == Alphabet[v + 1]
Value(c) == CHOOSE v \in 0..63 : Alphabet[v + 1] = c

\* btoa: a string of code units 0..255 (a sequence of them) to base64 text (a
\* sequence of characters).
RECURSIVE Btoa(_)
Btoa(bin) ==
    IF bin = <<>> THEN <<>>
    ELSE IF Len(bin) = 1 THEN
        <<Char(bin[1] \div 4), Char((bin[1] % 4) * 16), "=", "=">>
    ELSE IF Len(bin) = 2 THEN
        <<Char(bin[1] \div 4), Char((bin[1] % 4) * 16 + bin[2] \div 16),
          Char((bin[2] % 16) * 4), "=">>
    ELSE
        <<Char(bin[1] \div 4), Char((bin[1] % 4) * 16 + bin[2] \div 16),
          Char((bin[2] % 16) * 4 + bin[3] \div 64), Char(bin[3] % 64)>>
        \o Btoa(SubSeq(bin, 4, Len(bin)))

\* atob: base64 text to the string of code units it stands for.
RECURSIVE Atob(_)
Atob(text) ==
    IF text = <<>> THEN <<>>
    ELSE LET v1 == Value(text[1])
             v2 == Value(text[2])
         IN  IF text[3] = "=" THEN <<v1 * 4 + v2 \div 16>>
             ELSE LET v3 == Value(text[3]) IN
                  IF text[4] = "="
                  THEN <<v1 * 4 + v2 \div 16, (v2 % 16) * 16 + v3 \div 4>>
                  ELSE <<v1 * 4 + v2 \div 16, (v2 % 16) * 16 + v3 \div 4,
                         (v3 % 4) * 64 + Value(text[4])>>
                       \o Atob(SubSeq(text, 5, Len(text)))

\* String.fromCharCode with the high bit of the byte dropped.
FromCharCode7(b) == b % 128

\* String.fromCharCode(b), line 23: the code unit is b modulo 2^16.
FromCharCode(b) == b % 65536

\* bytes[i] = code, line 14: a Uint8Array element keeps code modulo 2^8.
Uint8(code) == code % 256

\* encode, lines 19-26.
encode(bytes) == Btoa([i \in 1..Len(bytes) |-> FromCharCode(bytes[i])])

\* decode, lines 9-17.
decode(base64) ==
    LET binaryString == Atob(base64)
    IN  [i \in 1..Len(binaryString) |-> Uint8(binaryString[i])]

otherVars ==
    <<reactVars, refVars, resVars, textVars, playVars, pc, capture, clock, alerts,
      nEvents, last, limits, capVars>>

\* encode is called on the bytes.
Encode ==
    /\ codec.pc = "idle"
    /\ codec' = [codec EXCEPT !.pc = "encoded", !.base64 = encode(codec.bytes)]
    /\ UNCHANGED otherVars

\* decode is called on the text encode returned.
Decode ==
    /\ codec.pc = "encoded"
    /\ codec' = [codec EXCEPT !.pc = "decoded", !.out = decode(codec.base64)]
    /\ UNCHANGED otherVars

\* ------------------------------------------------------------ specification
\* A session is started and becomes Active.
Connect ==
    \/ UserStart
    \/ \E s \in Sessions : DeviceGrant(s)
    \/ \E s \in Sessions : ChannelOpen(s)
    \/ \E s \in Sessions : ConnectResolve(s)

\* A session fails or is torn down.
Teardown ==
    \/ \E s \in Sessions : DeviceDeny(s)
    \/ \E s \in Sessions : ConnectReject(s)
    \/ \E s \in Sessions : ChannelError(s)
    \/ \E s \in Sessions : ChannelClose(s)
    \/ UserStop

\* An inbound event is delivered.
Deliver ==
    \E s \in Sessions, m \in limits.messages, eagerIn, eagerOut \in BOOLEAN :
       OnMessage(s, m, eagerIn, eagerOut)

\* The transcript of one session: events without audio, no teardown.
NextText == Connect \/ Render \/ Deliver

\* The playback of one session: events without text, time passing; no
\* teardown, and no render (these events queue no update).
NextPlay == Connect \/ Deliver \/ ResumeDecode \/ Tick

\* The lifecycle of several sessions, no inbound events.
NextLife == Connect \/ Teardown \/ Render

\* Sessions ended by the user and started again; no failure.
NextRestart == Connect \/ UserStop \/ (\E s \in Sessions : ChannelClose(s)) \/ Render

\* A session plays audio, is ended by the user, and another is started.
NextReopen == Connect \/ Deliver \/ ResumeDecode \/ UserStop \/ Render

\* A block or a frame is captured.
Capture ==
    \/ \E s \in Sessions : AudioBlock(s)
    \/ \E s \in Sessions : VideoTick(s)

\* An asynchronous step of the video pipeline completes.
Completion ==
    \/ \E f \in encoding, blob \in BOOLEAN : BlobReady(f, blob)
    \/ \E f \in reading : LoadEnd(f)

\* The capture pipelines of one session, which the user or the peer ends.
NextCapture ==
    \/ Connect \/ Capture \/ Completion \/ Render
    \/ UserStop
    \/ \E s \in Sessions : ChannelClose(s)

\* A byte sequence is encoded and decoded back.
NextCodec == Encode \/ Decode

\* Everything.
Next ==
    \/ Connect \/ Teardown \/ Render \/ Deliver \/ ResumeDecode \/ Tick
    \/ Capture \/ Completion

Spec == Init /\ [][NextText]_vars
SpecPlay == InitPlay /\ [][NextPlay]_vars
SpecLife == InitLife /\ [][NextLife]_vars
SpecRestart == InitRestart /\ [][NextRestart]_vars
SpecReopen == InitReopen /\ [][NextReopen]_vars
SpecCapture == InitCapture /\ [][NextCapture]_vars
SpecCodec == InitCodec /\ [][NextCodec]_vars
SpecAll == InitAll /\ [][Next]_vars

\* ------------------------------------------------------------ transcript claims
\* The entries a step queued: what follows the first n queued updates.
QueuedSince(n) == SubSeq(updates.tr, n + 1, Len(updates.tr))

Roles(entries) == [i \in 1..Len(entries) |-> entries[i].role]

Shown(entries) == [i \in 1..Len(entries) |-> [role |-> entries[i].role, text |-> entries[i].text]]

\* C1: the text of every entry that ends up in the rendered transcript equals
\* the concatenation, in arrival order, of the fragments received for its
\* speaker since the previous turn-complete.
C1_EntryTextIsConcatenation ==
    \A i \in 1..Len(transcriptions) : transcriptions[i].text = transcriptions[i].want

\* C2: a turn-complete signal queues, in this order, a user entry iff the
\* user buffer is non-empty and an assistant entry iff the assistant buffer is
\* non-empty, and nothing else: two entries, user first, when both are
\* non-empty; none when both are empty; one, of that speaker, otherwise.
C2_TurnCompleteEntries ==
    last.turn =>
        /\ Len(updates.tr) >= last.before
        /\ Roles(QueuedSince(last.before)) =
              (IF last.hadIn THEN <<"user">> ELSE <<>>)
              \o (IF last.hadOut THEN <<"assistant">> ELSE <<>>)

\* C2 witness: a turn-complete signal found both buffers non-empty and two
\* entries are queued.
C2_Witness ==
    /\ last.turn /\ last.hadIn /\ last.hadOut
    /\ Len(updates.tr) = last.before + 2

\* The end of the run of C3: one session, the queued updates rendered, and
\* the only turn completed had received "Hello" and " there" for the
\* assistant and left no user entry.
C3_Scenario ==
    /\ NStarted = 1
    /\ nEvents = 3
    /\ updates = NoUpdates
    /\ transcriptions # <<>>
    /\ transcriptions[Len(transcriptions)].want = "Hello there"
    /\ transcriptions[Len(transcriptions)].role = "assistant"
    /\ \A i \in 1..(Len(transcriptions) - 1) : transcriptions[i] = Placeholder
    /\ currentOutText[1] = "" /\ currentInText[1] = ""

\* C3: after start, device grant, channel open, output fragments "Hello" and
\* " there" and a turnComplete with an empty input buffer, the transcript is
\* exactly one entry, {assistant, "Hello there"}.
C3_HelloThereOnly ==
    C3_Scenario => Shown(transcriptions) = <<[role |-> "assistant", text |-> "Hello there"]>>

C5_StartNotBeforeArrival ==
    last.start => last.startAt >= last.arrival

C7_CursorNeverBehindClock ==
    \A s \in Sessions :
        (chan[s] = "open" /\ ActiveAfter(updates)) => nextStartTimeRef >= clock[s]

\* C7, amended: immediately after the handler of an audio payload executes
\* line 173, the cursor is greater than or equal to the output clock's
\* reading.
C7_CursorClampedOnArrival ==
    last.clamp => nextStartTimeRef >= clock[last.s]

\* C7 witness: a payload arrives when the clock has passed the cursor, and
\* the cursor is moved to the clock's reading.
C7_Witness ==
    /\ last.clamp
    /\ clock[last.s] > 0
    /\ nextStartTimeRef = clock[last.s]

\* ------------------------------------------------------------ teardown claims
\* C8: a call of stopSession, the second of two in succession included,
\* raises no error and leaves the session not active and not connecting,
\* the tracks of the stream stopped and the channel handle null.
C8_StopIsQuiet ==
    last.op = "stopSession" =>
        /\ ~last.rejected
        /\ ~ActiveAfter(updates)
        /\ ~ConnectingAfter(updates)
        /\ sessionRef = 0
        /\ streamRef # 0 => tracks[streamRef] = "stopped"

\* C9: each resource of a session (the channel, the device tracks, the video
\* timer, the input and the output audio context) receives its release
\* operation at most once.
C9_ReleasedAtMostOnce ==
    \A s \in Sessions : \A r \in Resources : released[s][r] <= 1

\* C10: once teardown has run while the device request or the channel-open
\* request of an invocation was outstanding, that invocation acquires no
\* device or context, opens no channel, starts neither the audio capture nor
\* the video timer, and stores no channel handle.
C10_LateCompletionsAreNoOps ==
    \A s \in Sessions :
        /\ torn[s] = "device" =>
              /\ tracks[s] = "none" /\ ctxIn[s] = "none" /\ ctxOut[s] = "none"
              /\ chan[s] = "none"
        /\ torn[s] # "no" =>
              /\ ~capture[s] /\ timer[s] = "none"
              /\ sessionRef # s

\* ------------------------------------------------------------ session claims
\* An invocation holds a live resource: a live device track, a running audio
\* context, a channel connecting or open, or a running video timer.
Live(s) ==
    \/ tracks[s] = "live"
    \/ ctxIn[s] = "running" \/ ctxOut[s] = "running"
    \/ chan[s] \in {"connecting", "open"}
    \/ timer[s] = "running"

\* An invocation of startSession awaits its devices or holds a live resource.
InProgress(s) == pc[s] = "awaitDevice" \/ Live(s)

\* C11: at most one session is live at any time: no startSession is invoked
\* while an earlier invocation is still connecting or holds a live resource,
\* and no two invocations hold live resources at once.
C11_AtMostOneSession ==
    Cardinality({s \in Sessions : InProgress(s)}) <= 1

\* The device request of invocation s failed: it ended in the catch block
\* without a stream.
DeviceFailed(s) == pc[s] = "ended" /\ tracks[s] = "none"

\* C12: when getUserMedia fails, the catch block raises one alert and leaves
\* the flags queued as not active and not connecting, and ai.live.connect is
\* never invoked for that invocation: it has no channel, no audio context, no
\* capture and no timer, then and ever after.
C12_DeviceFailure ==
    /\ [][\A s \in Sessions :
            (pc[s] = "awaitDevice" /\ pc'[s] = "ended") =>
                /\ alerts' = alerts + 1
                /\ ~ActiveAfter(updates') /\ ~ConnectingAfter(updates')
                /\ sessionRef' = 0]_vars
    /\ [](\A s \in Sessions :
            DeviceFailed(s) =>
                /\ chan[s] = "none" /\ ctxIn[s] = "none" /\ ctxOut[s] = "none"
                /\ ~capture[s] /\ timer[s] = "none"
                /\ alerts >= 1)

\* C12 witness: a device request has failed, the alert was raised, and the
\* rendered flags are not active and not connecting.
C12_Witness ==
    /\ \E s \in Sessions : DeviceFailed(s)
    /\ alerts >= 1
    /\ updates = NoUpdates /\ ~isActive /\ ~isConnecting

\* Every completion of invocation s has run: no request is outstanding and
\* no update waits for a render.
Settled(s) ==
    /\ pc[s] \in {"resolved", "ended"}
    /\ chan[s] # "connecting"
    /\ updates = NoUpdates

\* C13: once teardown has run while invocation s was connecting and every
\* completion of s has finished, nothing s acquired is live, the channel
\* handle is not that of s and, unless a later invocation has started, the
\* state is neither active nor connecting.
C13_NothingLeftLive ==
    \A s \in Sessions :
        (torn[s] # "no" /\ Settled(s)) =>
            /\ ~Live(s)
            /\ sessionRef # s
            /\ (\A r \in Sessions : r > s => pc[r] = "unused") =>
                   (~isActive /\ ~isConnecting)

\* C14: whenever onopen runs for an invocation, a later one included, the
\* flags are queued as active and not connecting, the audio capture and the
\* video timer of the invocation are started, and the cursor is zero.
C14_OpenResetsCursor ==
    [][\A s \in Sessions :
          (chan[s] = "connecting" /\ chan'[s] = "open") =>
              /\ ActiveAfter(updates') /\ ~ConnectingAfter(updates')
              /\ capture'[s] /\ timer'[s] = "running"
              /\ nextStartTimeRef' = 0]_vars

\* ------------------------------------------------------------ capture claims
\* The chunks of one pipeline were sent in the order they were captured.
InCaptureOrder(kind) ==
    \A i, j \in 1..Len(sent) :
        (i < j /\ sent[i].s = sent[j].s /\ sent[i].kind = kind /\ sent[j].kind = kind)
            => sent[i].n < sent[j].n

\* C15: within each capture pipeline, audio and video, the chunks reach
\* sendRealtimeInput in the order they were captured.
C15_SentInCaptureOrder ==
    InCaptureOrder("audio") /\ InCaptureOrder("video")

\* C20: no sendRealtimeInput call is made for an invocation after stopSession
\* has run for it.
C20_NoSendAfterTeardown ==
    \A i \in 1..Len(sent) : ~sent[i].late

\* ------------------------------------------------------------ inbound claims
\* C16: inbound events are handled strictly one after another: when a handler
\* has run its synchronous part, no handler of an earlier event is suspended
\* at await decodeAudioData with state changes still to make.
C16_HandlersDoNotOverlap ==
    (last.op = "onmessage" /\ ~last.start) =>
        Len(decoding) = (IF last.clamp THEN 1 ELSE 0)

\* C17: the handler of an inbound event in which optional fields are absent
\* raises no error.
C17_AbsentFieldsRaiseNoError ==
    last.op = "onmessage" => ~last.threw

\* ------------------------------------------------------------ codec claims
\* C18: decode(encode(b)) = b for every byte sequence b, the empty one and
\* the single-byte ones included; the text in between is padded base64.
C18_RoundTrip ==
    /\ codec.pc # "idle" => Len(codec.base64) = 4 * ((Len(codec.bytes) + 2) \div 3)
    /\ codec.pc = "decoded" => codec.out = codec.bytes

\* C18 witness: the single byte 255 went through encode, giving "/w==", and
\* through decode.
C18_Witness ==
    /\ codec.pc = "decoded"
    /\ codec.bytes = <<255>>
    /\ codec.base64 = <<"/", "w", "=", "=">>

\* ------------------------------------------------------------ buffer claims
\* C19: every transcription fragment an event carries is appended to the
\* pending buffer of its speaker, so each buffer holds every fragment
\* received for its speaker since the last turnComplete.
C19_NoFragmentDropped ==
    \A s \in Sessions :
        /\ currentOutText[s] = recvOut[s]
        /\ currentInText[s] = recvIn[s]

====
